---- MODULE Spec2Model ----
(***************************************************************************)
(* A model of src/pogoda.py: the weather repository (WeatherDataHandler),  *)
(* the city list (CityListComponent), the weather display                  *)
(* (WeatherDisplayComponent) and the application object (WeatherApp).      *)
(*                                                                         *)
(* String literals of a module are ASCII, so the program's Russian texts   *)
(* and its emoji are written in transliteration:                           *)
(*   "Нет данных"      -> "Net dannyh"      (the sentinel city, and the    *)
(*                                           placeholder label)            *)
(*   "Москва", "Казань", "Атлантида" -> "Moskva", "Kazan", "Atlantida"     *)
(*   "Н/Д"             -> "N/D"                                            *)
(*   "°"               -> "deg"                                            *)
(*   the icons         -> "icon:<condition>"                               *)
(*   the tips          -> "tip:<condition>"                                *)
(*   "апреля" ...      -> "aprelya" ...                                    *)
(* A text the program processes character by character (the argument of    *)
(* format_date) is a sequence of one-character strings; Join turns it into *)
(* the string it spells.                                                   *)
(***************************************************************************)
EXTENDS Integers, Sequences, FiniteSets, TLC

VARIABLES
    phase,              \* "new": root window made, WeatherApp(root) not yet run;
                        \* "running": the main loop serves events; "destroyed"
    file,               \* what weather_data.json holds (or why it cannot be read)
    weather_data,       \* WeatherDataHandler.weather_data
    current_city,       \* WeatherApp.current_city
    ui_built,           \* setup_ui created city_list and weather_display
    list_current_city,  \* CityListComponent.current_city
    city_labels,        \* CityListComponent.city_labels: <<[text, bg]>>
    main_frame_bg,      \* the bg option of BaseWeatherApp.main_frame
    city_label,         \* the text of WeatherDisplayComponent.city_label
    info_frame,         \* the widgets in info_frame, in creation order
    hourly_frame,       \* the widgets in hourly_frame, in creation order
    forecast_frame,     \* the widgets in forecast_frame, in creation order
    last_call,          \* the latest of "startup", "select_city", "update_weather"
    prev_call,          \* the one before it
    last_arg,           \* the argument of the latest select_city
    last_renders,       \* how often that call entered WeatherDisplayComponent.render
    render_seen,        \* the selection state render found on entry
    last_msgs,          \* the message boxes that call showed
    fd_date,            \* format_date: the argument
    fd_result           \* format_date: what the call did

vars == <<phase, file, weather_data, current_city, ui_built, list_current_city,
          city_labels, main_frame_bg, city_label, info_frame, hourly_frame,
          forecast_frame, last_call, prev_call, last_arg, last_renders,
          render_seen, last_msgs, fd_date, fd_result>>

appVars == <<phase, file, weather_data, current_city, ui_built, list_current_city,
             city_labels, main_frame_bg, city_label, info_frame, hourly_frame,
             forecast_frame, last_call, prev_call, last_arg, last_renders,
             render_seen, last_msgs>>

fdVars == <<fd_date, fd_result>>

(***************************************************************************)
(* Bounds of the model.                                                    *)
(***************************************************************************)
\* the most entries an hourly block holds
MaxHourly == 2
\* the most '-'-separated parts of an argument of format_date
MaxParts == 4

(***************************************************************************)
(* Python helpers.                                                         *)
(***************************************************************************)
\* dict.get(key, default)
Get(d, k, default) == IF k \in DOMAIN d THEN d[k] ELSE default

NoneExc == "None"

DigitChars == <<"0", "1", "2", "3", "4", "5", "6", "7", "8", "9">>

Digit(d) == DigitChars[d + 1]

RECURSIVE NatStr(_)
NatStr(n) == IF n < 10 THEN Digit(n) ELSE NatStr(n \div 10) \o Digit(n % 10)

\* str(n), the way an f-string writes an integer
Str(n) == IF n < 0 THEN "-" \o NatStr(-n) ELSE NatStr(n)

\* the string a sequence of one-character strings spells
RECURSIVE Join(_)
Join(cs) == IF cs = <<>> THEN "" ELSE Head(cs) \o Join(Tail(cs))

\* str.split(sep): the parts between the separators, never fewer than one
RECURSIVE Split(_, _)
Split(cs, sep) ==
    IF \A i \in 1..Len(cs) : cs[i] # sep
    THEN <<cs>>
    ELSE LET k == CHOOSE i \in 1..Len(cs) :
                      cs[i] = sep /\ \A j \in 1..(i - 1) : cs[j] # sep
         IN  <<SubSeq(cs, 1, k - 1)>> \o Split(SubSeq(cs, k + 1, Len(cs)), sep)

IsDigit(c) == \E d \in 0..9 : c = Digit(d)

DigitVal(c) == CHOOSE d \in 0..9 : c = Digit(d)

RECURSIVE LStrip(_)
LStrip(cs) == IF cs # <<>> /\ Head(cs) = " " THEN LStrip(Tail(cs)) ELSE cs

RECURSIVE RStrip(_)
RStrip(cs) ==
    IF cs # <<>> /\ cs[Len(cs)] = " " THEN RStrip(SubSeq(cs, 1, Len(cs) - 1)) ELSE cs

\* the digits of an int() literal: the text stripped of blanks and of one sign
IntDigits(cs) ==
    LET s == RStrip(LStrip(cs))
    IN  IF s # <<>> /\ Head(s) \in {"+", "-"} THEN Tail(s) ELSE s

\* int(text) succeeds (texts without "_" and with ASCII digits only)
IntOk(cs) ==
    LET ds == IntDigits(cs)
    IN  ds # <<>> /\ \A i \in 1..Len(ds) : IsDigit(ds[i])

RECURSIVE DigitsVal(_)
DigitsVal(ds) ==
    IF ds = <<>> THEN 0
    ELSE 10 * DigitsVal(SubSeq(ds, 1, Len(ds) - 1)) + DigitVal(ds[Len(ds)])

\* int(text), when IntOk(text)
IntVal(cs) ==
    LET s == RStrip(LStrip(cs))
        v == DigitsVal(IntDigits(cs))
    IN  IF s # <<>> /\ Head(s) = "-" THEN -v ELSE v

(***************************************************************************)
(* The lookup tables.                                                      *)
(***************************************************************************)
weather_gradients ==
    [c \in {"clear", "partly-cloudy", "cloudy", "rain", "snow"} |->
        CASE c = "clear"         -> <<"#FFD700", "#FFFFFF">>
          [] c = "partly-cloudy" -> <<"#87CEEB", "#FFFFFF">>
          [] c = "cloudy"        -> <<"#B0C4DE", "#D3D3D3">>
          [] c = "rain"          -> <<"#4682B4", "#87CEFA">>
          [] c = "snow"          -> <<"#ADD8E6", "#FFFFFF">>]

weather_tips ==
    [c \in {"clear", "partly-cloudy", "cloudy", "rain", "snow"} |-> "tip:" \o c]

weather_icons ==
    [c \in {"clear", "partly-cloudy", "cloudy", "rain", "snow"} |-> "icon:" \o c]

month_names ==
    [m \in {"01", "02", "03", "04", "05", "06", "07", "08", "09", "10", "11", "12"} |->
        CASE m = "01" -> "yanvarya"
          [] m = "02" -> "fevralya"
          [] m = "03" -> "marta"
          [] m = "04" -> "aprelya"
          [] m = "05" -> "maya"
          [] m = "06" -> "iyunya"
          [] m = "07" -> "iyulya"
          [] m = "08" -> "avgusta"
          [] m = "09" -> "sentyabrya"
          [] m = "10" -> "oktyabrya"
          [] m = "11" -> "noyabrya"
          [] m = "12" -> "dekabrya"]

(***************************************************************************)
(* WeatherDataHandler.format_date.  The result is [raised, value]: the     *)
(* exception that leaves the call ("None" when it returns) and the string  *)
(* returned.                                                               *)
(***************************************************************************)
format_date(date) ==
    LET parts == Split(date, "-")
    IN  IF Len(parts) < 3
        THEN \* date.split('-')[2]: IndexError, caught
             [raised |-> NoneExc, value |-> Join(date)]
        ELSE LET day   == parts[3]
                 month == Join(parts[2])
             IN  IF ~IntOk(day)
                 THEN \* int(day): ValueError, which the except clause does not name
                      [raised |-> "ValueError", value |-> ""]
                 ELSE IF month \notin DOMAIN month_names
                 THEN \* month_names[month]: KeyError, caught
                      [raised |-> NoneExc, value |-> Join(date)]
                 ELSE [raised |-> NoneExc,
                       value  |-> Str(IntVal(day)) \o " " \o month_names[month]]

\* format_date has not been called
NotCalled == [raised |-> "not called", value |-> ""]

\* the parts the arguments of format_date are put together from
PartPool ==
    { <<"2", "0", "2", "5">>, <<"0", "4">>, <<"1", "5">>, <<"0", "5">>,
      <<"1", "3">>, <<"x", "x">>, <<>>, <<"n", "o", "t">>, <<"a">>,
      <<"d", "a", "t", "e">>, <<" ", "7">>, <<"+", "3">> }

RECURSIVE JoinParts(_)
JoinParts(ps) ==
    IF Len(ps) = 1 THEN ps[1] ELSE ps[1] \o <<"-">> \o JoinParts(Tail(ps))

DateInputs ==
    { JoinParts(ps) : ps \in UNION { [1..n -> PartPool] : n \in 1..MaxParts } }

(***************************************************************************)
(* The JSON values a dataset is made of.  A dict is a function; the order  *)
(* of an hourly block (a dict, which keeps insertion order) matters, so it *)
(* is a sequence of [time, data].  What json.load returns is               *)
(* [kind, cities]: kind "dict" for a mapping of cities, "list" for a       *)
(* non-empty list such as [1] (truthy, no mapping) and "null" for null     *)
(* (falsy, no mapping).  A city's record is [isdict, blocks]; a record     *)
(* that is no dict (null, a list, a number) has no blocks.                 *)
(***************************************************************************)
NoData == "Net dannyh"

Selected == "#3B82F6"

Plain == "#2C2C2C"

Hover == "#4A4A4A"

Dark == "#1A1A1A"

SkyBlue == "#87CEEB"

\* the city names of the model, in the ordinal order of the originals
CityOrder == <<"Atlantida", "Kazan", "Moskva", NoData>>

AllCities == { CityOrder[i] : i \in 1..Len(CityOrder) }

\* the key sets of the datasets; "Atlantida" is a key of none
CitySets == { {}, {"Moskva"}, {NoData}, {"Kazan", "Moskva"}, {"Moskva", NoData} }

\* sorted(keys)
Sorted(S) == SelectSeq(CityOrder, LAMBDA c : c \in S)

\* str.upper() on the city names
Upper(c) ==
    CASE c = "Atlantida" -> "ATLANTIDA"
      [] c = "Kazan"     -> "KAZAN"
      [] c = "Moskva"    -> "MOSKVA"
      [] c = NoData      -> "NET DANNYH"

\* a condition that is a JSON list: no key of any table, and unhashable
ListCondition == "[list]"

Hashable(c) == c # ListCondition

CurRain == [temp |-> 10, condition |-> "rain", wind |-> 3, humidity |-> 80]

CurFog == [temp |-> 4, condition |-> "fog", wind |-> 1, humidity |-> 95]

CurNoCondition == [temp |-> 7, wind |-> 2, humidity |-> 40]

CurNoWind == [temp |-> -5, condition |-> "snow", humidity |-> 70]

CurListCondition == [temp |-> 2, condition |-> ListCondition, wind |-> 6, humidity |-> 50]

HourLabels == <<"10:00", "11:00", "12:00", "13:00", "14:00">>

HourGood == [temp |-> 9, condition |-> "rain", precipitation |-> "60%"]

HourNoCondition == [temp |-> 8, precipitation |-> "10%"]

HourlyBlocks ==
    { [i \in DOMAIN f |-> [time |-> HourLabels[i], data |-> f[i]]] :
        f \in UNION { [1..n -> {HourGood, HourNoCondition}] : n \in 0..MaxHourly } }

EmptyMap == [k \in {} |-> 0]

DictRecord(blocks) == [isdict |-> TRUE, blocks |-> blocks]

\* a record that is no dict, as in {"Moskva": null}
NonDictRecord == [isdict |-> FALSE, blocks |-> EmptyMap]

\* The records of the model: no block at all; a complete current block with
\* or without an hourly block; a current block with an unknown condition;
\* current blocks that lack a field or hold a list as condition; no dict.
CityRecords ==
    { DictRecord(EmptyMap), NonDictRecord }
    \cup { DictRecord([b \in {"hourly"} |-> h]) : h \in HourlyBlocks }
    \cup { DictRecord([b \in {"current", "hourly", "forecast"} |->
                          CASE b = "current"  -> CurRain
                            [] b = "hourly"   -> h
                            [] b = "forecast" -> EmptyMap]) : h \in HourlyBlocks }
    \cup { DictRecord([b \in {"current"} |-> c]) :
               c \in {CurRain, CurFog, CurNoCondition, CurNoWind, CurListCondition} }

JDict(cities) == [kind |-> "dict", cities |-> cities]

EmptyDataset == JDict(EmptyMap)

JList == [kind |-> "list", cities |-> EmptyMap]

JNull == [kind |-> "null", cities |-> EmptyMap]

Contents ==
    { JList, JNull } \cup { JDict(d) : d \in UNION { [S -> CityRecords] : S \in CitySets } }

\* weather_data.json: missing, no JSON, unreadable for another reason, or JSON
Files ==
    { [status |-> st, content |-> JNull] : st \in {"missing", "badjson", "ioerror"} }
    \cup { [status |-> "ok", content |-> c] : c \in Contents }

\* bool(value)
Truthy(j) == j.kind = "list" \/ (j.kind = "dict" /\ DOMAIN j.cities # {})

Ok(v) == [raised |-> NoneExc, value |-> v]

Raise(e) == [raised |-> e, value |-> EmptyMap]

(***************************************************************************)
(* WeatherDataHandler.                                                     *)
(***************************************************************************)
\* load_weather_data: what it returns and the message box it shows
\* ("Preduprezhdenie" is showwarning, "Oshibka" is showerror)
load_weather_data(f) ==
    CASE f.status = "ok"      -> [value |-> f.content, msgs |-> <<>>]
      [] f.status = "missing" -> [value |-> EmptyDataset, msgs |-> <<"Preduprezhdenie">>]
      [] f.status = "badjson" -> [value |-> EmptyDataset, msgs |-> <<"Oshibka">>]
      [] f.status = "ioerror" -> [value |-> EmptyDataset, msgs |-> <<"Oshibka">>]

DefaultCurrent == [temp |-> 0, condition |-> "cloudy", wind |-> 0, humidity |-> 0]

\* self.weather_data.get(city, {}).get(block, default)
GetBlock(wd, city, block, default) ==
    IF wd.kind # "dict"
    THEN Raise("AttributeError")
    ELSE LET rec == Get(wd.cities, city, DictRecord(EmptyMap))
         IN  IF ~rec.isdict
             THEN Raise("AttributeError")
             ELSE Ok(Get(rec.blocks, block, default))

get_current_weather(wd, city) == GetBlock(wd, city, "current", DefaultCurrent)

get_hourly_forecast(wd, city) == GetBlock(wd, city, "hourly", <<>>)

get_daily_forecast(wd, city) == GetBlock(wd, city, "forecast", EmptyMap)

(***************************************************************************)
(* Statements that create widgets.  A statement is [raised, made]: the     *)
(* exception it raises, and the widgets it packs when it raises none.      *)
(* RunSteps runs statements in order up to the first that raises.          *)
(***************************************************************************)
Made(ws) == [raised |-> NoneExc, made |-> ws]

Fails(e) == [raised |-> e, made |-> <<>>]

RECURSIVE RunSteps(_, _)
RunSteps(children, steps) ==
    IF steps = <<>>
    THEN [children |-> children, raised |-> NoneExc]
    ELSE IF Head(steps).raised # NoneExc
    THEN [children |-> children, raised |-> Head(steps).raised]
    ELSE RunSteps(children \o Head(steps).made, Tail(steps))

RECURSIVE Flatten(_)
Flatten(ss) == IF ss = <<>> THEN <<>> ELSE Head(ss) \o Flatten(Tail(ss))

\* clear_frame that destroys nothing
clear_frame_keeps(children) == children

\* WeatherUIComponent.clear_frame: every child of the frame is destroyed
clear_frame(children) == <<>>

(***************************************************************************)
(* WeatherDisplayComponent.  A frame is the sequence of the widgets in it, *)
(* in creation order, nested frames flattened: a Frame is "Frame", a Label *)
(* is its text.                                                            *)
(***************************************************************************)
show_current(children, wd, city) ==
    LET got == get_current_weather(wd, city)
    IN  IF got.raised # NoneExc
        THEN [children |-> clear_frame(children), raised |-> got.raised]
        ELSE
        LET data == got.value
            has(k) == k \in DOMAIN data
            real == city # NoData
            icon == IF has("condition") /\ Hashable(data["condition"])
                    THEN Get(weather_icons, data["condition"], "icon:partly-cloudy")
                    ELSE ""
        IN  RunSteps(clear_frame(children), <<
              \* condition_icon = weather_icons.get(data['condition'], ...)
              IF ~has("condition") THEN Fails("KeyError")
              ELSE IF ~Hashable(data["condition"]) THEN Fails("TypeError")
              ELSE Made(<<>>),
              \* main_info
              Made(<<"Frame">>),
              IF has("temp")
              THEN Made(<<"+" \o Str(data["temp"]) \o "deg " \o icon>>)
              ELSE Fails("KeyError"),
              Made(<<IF real THEN "Pasmurno, osadkov ne ozhidaetsya"
                             ELSE "Dannye otsutstvuyut">>),
              \* details_frame
              Made(<<"Frame">>),
              IF ~real THEN Made(<<"OSHCHUSHCHAETSYA N/D">>)
              ELSE IF has("temp")
              THEN Made(<<"OSHCHUSHCHAETSYA +" \o Str(data["temp"] - 1) \o "deg">>)
              ELSE Fails("KeyError"),
              IF ~real THEN Made(<<"VETER N/D">>)
              ELSE IF has("wind")
              THEN Made(<<"VETER " \o Str(data["wind"]) \o " m/s">>)
              ELSE Fails("KeyError"),
              Made(<<IF real THEN "DAVLENIE 743 mm rt. st." ELSE "DAVLENIE N/D">>),
              IF ~real THEN Made(<<"VLAZHNOST N/D">>)
              ELSE IF has("humidity")
              THEN Made(<<"VLAZHNOST " \o Str(data["humidity"]) \o "%">>)
              ELSE Fails("KeyError"),
              \* the tip
              IF has("condition")
              THEN Made(<<Get(weather_tips, data["condition"], "Net dannyh o pogode")>>)
              ELSE Fails("KeyError")
            >>)

\* the four labels of one hourly entry, in its own frame
HourlyEntry(e) ==
    LET data == e.data
    IN  << Made(<<"Frame", e.time>>),
           IF "condition" \in DOMAIN data
           THEN Made(<<Get(weather_icons, data["condition"], "icon:partly-cloudy")>>)
           ELSE Fails("KeyError"),
           IF "temp" \in DOMAIN data
           THEN Made(<<"+" \o Str(data["temp"]) \o "deg">>)
           ELSE Fails("KeyError"),
           IF "precipitation" \in DOMAIN data
           THEN Made(<<"Osadki: " \o data["precipitation"]>>)
           ELSE Fails("KeyError") >>

show_hourly_forecast(children, wd, city) ==
    LET title == <<"Pochasovoy prognoz">>
        got   == get_hourly_forecast(wd, city)
    IN  IF got.raised # NoneExc
        THEN [children |-> clear_frame(children) \o title, raised |-> got.raised]
        ELSE IF got.value = <<>>
        THEN [children |-> clear_frame(children) \o title \o <<NoData>>,
              raised |-> NoneExc]
        ELSE \* scroll_frame, then the entries in the order of the dict; none
             \* of the statements of the loop is inside a try
             RunSteps(clear_frame(children) \o title \o <<"Frame">>,
                      Flatten([i \in 1..Len(got.value) |-> HourlyEntry(got.value[i])]))

DatePrefix == <<"2", "0", "2", "5", "-", "0", "4", "-">>

\* "2025-04-15" ... "2025-04-28"
dates == [i \in 1..14 |-> DatePrefix \o <<Digit((14 + i) \div 10), Digit((14 + i) % 10)>>]

temps == <<16, 14, 12, 10, 13, 15, 17, 11, 13, 18, 19, 16, 14, 12>>

conditions ==
    << "clear", "cloudy", "rain", "snow", "partly-cloudy",
       "clear", "clear", "cloudy", "partly-cloudy", "clear",
       "rain", "snow", "partly-cloudy", "cloudy" >>

\* one day of the loop: the body is inside try ... except Exception: continue
ForecastDay(i) ==
    LET formatted == format_date(dates[i])
    IN  IF formatted.raised # NoneExc
        THEN <<>>
        ELSE << "Frame", formatted.value,
                Get(weather_icons, conditions[i], "icon:partly-cloudy"),
                "+" \o Str(temps[i]) \o "deg" >>

\* what the loop over the 14 dates packs
forecast_days == Flatten([i \in 1..14 |-> ForecastDay(i)])

\* show_14_day_forecast without the branch for the sentinel city
show_14_day_forecast_always(children, city) ==
    clear_frame(children) \o <<"Prognoz na 14 dney">> \o forecast_days

show_14_day_forecast(children, city) ==
    LET title == <<"Prognoz na 14 dney">>
    IN  IF city = NoData
        THEN clear_frame(children) \o title \o <<NoData>>
        ELSE clear_frame(children) \o title \o forecast_days

(***************************************************************************)
(* The objects of the application as one record s: the operations below    *)
(* take the state they find and give the state they leave.                 *)
(***************************************************************************)
NoSeen == [arg |-> "", app |-> "", list |-> "", selected |-> {}]

\* the texts of the labels that carry the selected colour
SelectedTexts(labels) ==
    { labels[i].text : i \in { j \in DOMAIN labels : labels[j].bg = Selected } }

\* WeatherDisplayComponent.render
render(s, city) ==
    LET s0 == [s EXCEPT !.last_renders = @ + 1,
                        !.render_seen = [arg      |-> city,
                                         app      |-> s.current_city,
                                         list     |-> s.list_current_city,
                                         selected |-> SelectedTexts(s.city_labels)],
                        !.city_label = "POGODA V " \o Upper(city)]
        cur == show_current(s.info_frame, s.weather_data, city)
        s1  == [s0 EXCEPT !.info_frame = cur.children]
        hr  == show_hourly_forecast(s.hourly_frame, s.weather_data, city)
        s2  == [s1 EXCEPT !.hourly_frame = hr.children]
        s3  == [s2 EXCEPT !.forecast_frame =
                              show_14_day_forecast(s.forecast_frame, city)]
    IN  IF cur.raised # NoneExc THEN [state |-> s1, raised |-> cur.raised]
        ELSE IF hr.raised # NoneExc THEN [state |-> s2, raised |-> hr.raised]
        ELSE [state |-> s3, raised |-> NoneExc]

\* WeatherApp.set_gradient_background: a condition that cannot be hashed makes
\* weather_gradients.get raise, and the except clause sets the sky blue
set_gradient_background(s, condition) ==
    IF Hashable(condition)
    THEN [s EXCEPT !.main_frame_bg =
                       Get(weather_gradients, condition, <<SkyBlue, "#FFFFFF">>)[1]]
    ELSE [s EXCEPT !.main_frame_bg = SkyBlue]

\* the except clause of update_weather: messagebox.showerror
UpdateFailed(s) == [s EXCEPT !.last_msgs = Append(@, "Oshibka obnovleniya")]

\* WeatherApp.update_weather
update_weather(s) ==
    LET got == get_current_weather(s.weather_data, s.current_city)
    IN  IF got.raised # NoneExc
        THEN UpdateFailed(s)
        ELSE IF "condition" \notin DOMAIN got.value
        THEN UpdateFailed(s)
        ELSE LET r == render(set_gradient_background(s, got.value["condition"]),
                             s.current_city)
             IN  IF r.raised # NoneExc THEN UpdateFailed(r.state) ELSE r.state

\* WeatherApp.select_city
WeatherApp_select_city(s, city) == update_weather([s EXCEPT !.current_city = city])

\* CityListComponent.on_enter
on_enter(label) == IF label.bg # Selected THEN [label EXCEPT !.bg = Hover] ELSE label

\* on_leave that does not look at the colour of the label
on_leave_unguarded(label) == [label EXCEPT !.bg = Plain]

\* CityListComponent.on_leave
on_leave(label) == IF label.bg # Selected THEN [label EXCEPT !.bg = Plain] ELSE label

\* CityListComponent.select_city; on_select_callback is WeatherApp.select_city
CityListComponent_select_city(s, city) ==
    LET s1 == [s EXCEPT !.list_current_city = city,
                        !.city_labels =
                            [i \in DOMAIN s.city_labels |->
                                [text |-> s.city_labels[i].text,
                                 bg   |-> IF s.city_labels[i].text = city
                                          THEN Selected ELSE Plain]]]
    IN  WeatherApp_select_city(s1, city)

\* CityListComponent.__init__ with render
CityListComponent_init(s, keys) ==
    LET cities  == IF keys # {} THEN Sorted(keys) ELSE <<NoData>>
        current == cities[1]
    IN  [s EXCEPT !.list_current_city = current,
                  !.city_labels =
                      [i \in 1..Len(cities) |->
                          [text |-> cities[i],
                           bg   |-> IF cities[i] # current THEN Plain ELSE Selected]]]

\* WeatherApp.setup_ui
setup_ui(s) ==
    IF s.weather_data.kind # "dict"
    THEN \* weather_data.keys(): AttributeError, caught by setup_ui
         [s EXCEPT !.last_msgs = Append(@, "Oshibka UI")]
    ELSE LET listed == CityListComponent_init(s, DOMAIN s.weather_data.cities)
             \* WeatherDisplayComponent.__init__
             shown  == [listed EXCEPT !.city_label = "", !.info_frame = <<>>,
                                      !.hourly_frame = <<>>, !.forecast_frame = <<>>,
                                      !.ui_built = TRUE]
         IN  update_weather(shown)

Unset == [kind |-> "unset", cities |-> EmptyMap]

\* the application before WeatherApp(root)
Blank ==
    [phase |-> "new", weather_data |-> Unset, current_city |-> "", ui_built |-> FALSE,
     list_current_city |-> "", city_labels |-> <<>>, main_frame_bg |-> "",
     city_label |-> "", info_frame |-> <<>>, hourly_frame |-> <<>>,
     forecast_frame |-> <<>>, last_renders |-> 0, render_seen |-> NoSeen,
     last_msgs |-> <<>>]

\* WeatherApp.__init__ (with BaseWeatherApp.__init__ and WeatherDataHandler.__init__)
WeatherApp_init(f) ==
    LET loaded == load_weather_data(f)
        s0 == [Blank EXCEPT !.main_frame_bg = Dark,
                            !.weather_data = loaded.value,
                            !.last_msgs = loaded.msgs]
    IN  IF Truthy(s0.weather_data) /\ s0.weather_data.kind # "dict"
        THEN \* weather_data.keys(): AttributeError, caught by __init__
             [s0 EXCEPT !.last_msgs = Append(@, "Kriticheskaya oshibka"),
                        !.phase = "destroyed"]
        ELSE LET first == IF Truthy(s0.weather_data)
                          THEN Sorted(DOMAIN s0.weather_data.cities)[1]
                          ELSE NoData
             IN  [setup_ui([s0 EXCEPT !.current_city = first]) EXCEPT !.phase = "running"]

(***************************************************************************)
(* The state machine.                                                      *)
(***************************************************************************)
St ==
    [phase |-> phase, weather_data |-> weather_data, current_city |-> current_city,
     ui_built |-> ui_built, list_current_city |-> list_current_city,
     city_labels |-> city_labels, main_frame_bg |-> main_frame_bg,
     city_label |-> city_label, info_frame |-> info_frame,
     hourly_frame |-> hourly_frame, forecast_frame |-> forecast_frame,
     last_renders |-> last_renders, render_seen |-> render_seen,
     last_msgs |-> last_msgs]

\* a call starts: what the previous one rendered and showed is forgotten
Begin(s) == [s EXCEPT !.last_renders = 0, !.render_seen = NoSeen, !.last_msgs = <<>>]

Becomes(s) ==
    /\ phase' = s.phase
    /\ weather_data' = s.weather_data
    /\ current_city' = s.current_city
    /\ ui_built' = s.ui_built
    /\ list_current_city' = s.list_current_city
    /\ city_labels' = s.city_labels
    /\ main_frame_bg' = s.main_frame_bg
    /\ city_label' = s.city_label
    /\ info_frame' = s.info_frame
    /\ hourly_frame' = s.hourly_frame
    /\ forecast_frame' = s.forecast_frame
    /\ last_renders' = s.last_renders
    /\ render_seen' = s.render_seen
    /\ last_msgs' = s.last_msgs

\* the application is in state s
Is(s) ==
    /\ phase = s.phase
    /\ weather_data = s.weather_data
    /\ current_city = s.current_city
    /\ ui_built = s.ui_built
    /\ list_current_city = s.list_current_city
    /\ city_labels = s.city_labels
    /\ main_frame_bg = s.main_frame_bg
    /\ city_label = s.city_label
    /\ info_frame = s.info_frame
    /\ hourly_frame = s.hourly_frame
    /\ forecast_frame = s.forecast_frame
    /\ last_renders = s.last_renders
    /\ render_seen = s.render_seen
    /\ last_msgs = s.last_msgs

Called(name, arg) ==
    /\ last_call' = name
    /\ prev_call' = last_call
    /\ last_arg' = arg

Init ==
    /\ file \in Files
    /\ Is(Blank)
    /\ last_call = "none"
    /\ prev_call = "none"
    /\ last_arg = ""
    /\ fd_date = <<>>
    /\ fd_result = NotCalled

\* app = WeatherApp(root)
Startup ==
    /\ phase = "new"
    /\ Becomes(WeatherApp_init(file))
    /\ Called("startup", "")
    /\ UNCHANGED <<file, fd_date, fd_result>>

\* <Button-1> on the i-th label of the city list
Click(i) ==
    /\ phase = "running"
    /\ i \in DOMAIN city_labels
    /\ Becomes(CityListComponent_select_city(Begin(St), city_labels[i].text))
    /\ Called("select_city", city_labels[i].text)
    /\ UNCHANGED <<file, fd_date, fd_result>>

\* <Enter> on the i-th label
Enter(i) ==
    /\ phase = "running"
    /\ i \in DOMAIN city_labels
    /\ city_labels' = [city_labels EXCEPT ![i] = on_enter(@)]
    /\ UNCHANGED <<phase, file, weather_data, current_city, ui_built,
                   list_current_city, main_frame_bg, city_label, info_frame,
                   hourly_frame, forecast_frame, last_call, prev_call, last_arg,
                   last_renders, render_seen, last_msgs, fd_date, fd_result>>

\* <Leave> on the i-th label
Leave(i) ==
    /\ phase = "running"
    /\ i \in DOMAIN city_labels
    /\ city_labels' = [city_labels EXCEPT ![i] = on_leave(@)]
    /\ UNCHANGED <<phase, file, weather_data, current_city, ui_built,
                   list_current_city, main_frame_bg, city_label, info_frame,
                   hourly_frame, forecast_frame, last_call, prev_call, last_arg,
                   last_renders, render_seen, last_msgs, fd_date, fd_result>>

\* the program: the constructor, then the events of the main loop, one handler
\* at a time
Next ==
    \/ Startup
    \/ \E i \in 1..Len(CityOrder) : Click(i)
    \/ \E i \in 1..Len(CityOrder) : Enter(i)
    \/ \E i \in 1..Len(CityOrder) : Leave(i)

Spec == Init /\ [][Next]_vars

\* app.select_city(c) called directly, with any city
SelectCity(c) ==
    /\ phase = "running"
    /\ Becomes(WeatherApp_select_city(Begin(St), c))
    /\ Called("select_city", c)
    /\ UNCHANGED <<file, fd_date, fd_result>>

\* app.update_weather() called directly
UpdateWeather ==
    /\ phase = "running"
    /\ Becomes(update_weather(Begin(St)))
    /\ Called("update_weather", last_arg)
    /\ UNCHANGED <<file, fd_date, fd_result>>

\* the application object driven through its public methods
NextApi ==
    \/ Startup
    \/ \E c \in AllCities : SelectCity(c)
    \/ UpdateWeather

SpecApi == Init /\ [][NextApi]_vars

\* no application: format_date on its own
AppIdle == /\ Is([Blank EXCEPT !.phase = "off"])
           /\ file = [status |-> "missing", content |-> JNull]
           /\ last_call = "none"
           /\ prev_call = "none"
           /\ last_arg = ""

InitFormat == /\ AppIdle
              /\ fd_date \in DateInputs
              /\ fd_result = NotCalled

FormatDate == /\ fd_result = NotCalled
              /\ fd_result' = format_date(fd_date)
              /\ UNCHANGED fd_date
              /\ UNCHANGED appVars

NextFormat == FormatDate

SpecFormat == InitFormat /\ [][NextFormat]_vars

(***************************************************************************)
(* The claims.                                                             *)
(***************************************************************************)
Running == phase = "running"

UpdateError == "Oshibka obnovleniya"

Shown(frame, text) == \E k \in DOMAIN frame : frame[k] = text

\* sub is a run of consecutive widgets of frame
Contains(frame, sub) ==
    \E k \in 0..(Len(frame) - Len(sub)) : SubSeq(frame, k + 1, k + Len(sub)) = sub

Keys == IF weather_data.kind = "dict" THEN DOMAIN weather_data.cities ELSE {}

CurrentFields == {"temp", "condition", "wind", "humidity"}

\* the record of city c is a dict whose current block, if any, has all fields
\* and a condition that is a string
SoundCurrent(c) ==
    /\ c \in Keys
    /\ weather_data.cities[c].isdict
    /\ LET got == get_current_weather(weather_data, c)
       IN  /\ CurrentFields \subseteq DOMAIN got.value
           /\ Hashable(got.value["condition"])

\* C1: every call of select_city(c), for any city c and whatever the shape of
\* its record, sets WeatherApp.current_city to c and enters
\* WeatherDisplayComponent.render exactly once; for a city that is no key of
\* the dataset the display is complete and made of the repository defaults.
C1_SelectCityRendersOnce ==
    (Running /\ ui_built /\ last_call = "select_city") =>
        /\ current_city = last_arg
        /\ last_renders = 1
        /\ render_seen.arg = last_arg
        /\ (last_arg \notin Keys) =>
              /\ last_msgs = <<>>
              /\ city_label = "POGODA V " \o Upper(last_arg)
              /\ info_frame = show_current(<<>>, EmptyDataset, last_arg).children
              /\ hourly_frame = <<"Pochasovoy prognoz", NoData>>
              /\ forecast_frame = show_14_day_forecast(<<>>, last_arg)

\* "2025-04-15"
Date20250415 == <<"2", "0", "2", "5", "-", "0", "4", "-", "1", "5">>

AllDigits(cs) == \A i \in 1..Len(cs) : IsDigit(cs[i])

\* the text is YYYY-MM-DD with a month code of month_names
ExpectedShape(date) ==
    LET parts == Split(date, "-")
    IN  /\ Len(parts) = 3
        /\ Len(parts[1]) = 4 /\ AllDigits(parts[1])
        /\ Len(parts[2]) = 2 /\ Join(parts[2]) \in DOMAIN month_names
        /\ Len(parts[3]) = 2 /\ AllDigits(parts[3])

\* C2: format_date raises nothing; an argument that is not of the shape
\* YYYY-MM-DD, or whose month code is unknown, comes back unchanged; and
\* "2025-04-15" gives "15 aprelya".
C2_FormatDateFailSoft ==
    (fd_result.raised # "not called") =>
        /\ fd_result.raised = NoneExc
        /\ ~ExpectedShape(fd_date) => fd_result.value = Join(fd_date)
        /\ (fd_date = Date20250415) => fd_result.value = "15 aprelya"

\* C3: for every loaded dataset whose records are dicts (with blocks missing,
\* or a current block missing fields) and every city, get_current_weather
\* returns a record with the four fields temp, condition, wind and humidity,
\* and get_hourly_forecast and get_daily_forecast return.
C3_AccessorsTotal ==
    (Running /\ weather_data.kind = "dict"
             /\ \A k \in Keys : weather_data.cities[k].isdict) =>
        \A c \in AllCities :
            /\ get_current_weather(weather_data, c).raised = NoneExc
            /\ CurrentFields \subseteq DOMAIN get_current_weather(weather_data, c).value
            /\ get_hourly_forecast(weather_data, c).raised = NoneExc
            /\ get_daily_forecast(weather_data, c).raised = NoneExc

\* load_weather_data fails: the file is missing, is no JSON, cannot be read,
\* or parses to something that is no mapping of cities
LoadFails(f) == f.status # "ok" \/ f.content.kind # "dict"

\* C4: after any failure of load_weather_data the application is in the
\* Empty state and running: weather_data is the empty dataset, the selected
\* city is the sentinel, the UI is set up and the root window is not destroyed.
C4_LoadFailureLeavesEmptyRunning ==
    (phase # "new" /\ LoadFails(file)) =>
        /\ phase = "running"
        /\ weather_data = EmptyDataset
        /\ current_city = NoData
        /\ ui_built

\* what show_current packs for the sentinel city of an empty dataset
EmptyInfo ==
    << "Frame", "+0deg icon:cloudy", "Dannye otsutstvuyut",
       "Frame", "OSHCHUSHCHAETSYA N/D", "VETER N/D", "DAVLENIE N/D", "VLAZHNOST N/D",
       "tip:cloudy" >>

\* the list and the selection of the Empty state; update_weather raised nothing
EmptyStateSelection ==
    /\ [i \in DOMAIN city_labels |-> city_labels[i].text] = <<NoData>>
    /\ list_current_city = NoData
    /\ current_city = NoData
    /\ ~Shown(last_msgs, UpdateError)
    /\ last_renders = 1

\* C5 (amended): with an empty dataset the city list is the sentinel alone,
\* the selection is the sentinel and update_weather raises nothing; the
\* summary, the feels-like, wind, pressure and humidity details, the hourly
\* block and the 14-day block show a "no data" placeholder, while the
\* temperature line shows the default "+0deg" with the icon of "cloudy" and
\* the tip is the tip of "cloudy".
C5_EmptyDatasetDisplay ==
    (Running /\ weather_data = EmptyDataset) =>
        /\ EmptyStateSelection
        /\ info_frame = EmptyInfo
        /\ hourly_frame = <<"Pochasovoy prognoz", NoData>>
        /\ forecast_frame = <<"Prognoz na 14 dney", NoData>>

\* the texts that stand for "no data"
Placeholders ==
    { NoData, "Dannye otsutstvuyut", "OSHCHUSHCHAETSYA N/D", "VETER N/D",
      "DAVLENIE N/D", "VLAZHNOST N/D", "Net dannyh o pogode" }

\* C5 as stated: with an empty dataset every part of the display, the
\* temperature line and the tip included, shows a "no data" placeholder.
C5_EveryPartPlaceholder ==
    (Running /\ weather_data = EmptyDataset) =>
        /\ EmptyStateSelection
        /\ Len(info_frame) = Len(EmptyInfo)
        /\ \A k \in DOMAIN info_frame :
               info_frame[k] = "Frame" \/ info_frame[k] \in Placeholders
        /\ hourly_frame = <<"Pochasovoy prognoz", NoData>>
        /\ forecast_frame = <<"Prognoz na 14 dney", NoData>>

\* the empty dataset was loaded from a file holding {} and the sentinel label
\* has been clicked
C5_Witness ==
    /\ Running
    /\ weather_data = EmptyDataset
    /\ file.status = "ok"
    /\ last_call = "select_city"
    /\ info_frame = EmptyInfo

HourlyOf(c) == get_hourly_forecast(weather_data, c).value

WellFormedHour(e) == {"temp", "condition", "precipitation"} \subseteq DOMAIN e.data

\* the widgets of a well-formed hourly entry
HourWidgets(e) ==
    << "Frame", e.time,
       Get(weather_icons, e.data["condition"], "icon:partly-cloudy"),
       "+" \o Str(e.data["temp"]) \o "deg",
       "Osadki: " \o e.data["precipitation"] >>

\* C6: when one hourly entry (or one of the 14 days) cannot be rendered, only
\* that item is skipped: every other entry of the hourly block and the whole
\* 14-day block are rendered, and no error box is shown.
C6_ItemFailureIsolated ==
    (Running /\ ui_built /\ SoundCurrent(current_city)) =>
        /\ \A i \in DOMAIN HourlyOf(current_city) :
               WellFormedHour(HourlyOf(current_city)[i]) =>
                   Contains(hourly_frame, HourWidgets(HourlyOf(current_city)[i]))
        /\ forecast_frame = show_14_day_forecast(<<>>, current_city)
        /\ ~Shown(last_msgs, UpdateError)

\* the colour C7 names for a city
ExpectedBackground(c) ==
    LET got == get_current_weather(weather_data, c)
    IN  IF /\ got.raised = NoneExc
           /\ "condition" \in DOMAIN got.value
           /\ got.value["condition"] \in DOMAIN weather_gradients
        THEN weather_gradients[got.value["condition"]][1]
        ELSE SkyBlue

\* C7: after startup and after every select_city the background of
\* main_frame is the start colour of the gradient of the current city's
\* condition, or the sky blue when there is none.
C7_BackgroundFollowsCity ==
    (Running /\ ui_built /\ \A k \in Keys : weather_data.cities[k].isdict) =>
        main_frame_bg = ExpectedBackground(current_city)

\* the city the application starts with
InitialCity == IF Keys # {} THEN Sorted(Keys)[1] ELSE NoData

\* the city of the latest select_city, or the initial one
LatestSelection == IF last_call = "select_city" THEN last_arg ELSE InitialCity

\* C8: whenever render begins and whenever a handler has returned, both
\* current_city attributes are the city of the latest select_city (or the
\* initial city), and exactly the label of that city carries the selected
\* colour, for any interleaving of clicks, enters and leaves.
C8_SelectionAtomic ==
    (Running /\ ui_built) =>
        /\ current_city = LatestSelection
        /\ list_current_city = LatestSelection
        /\ SelectedTexts(city_labels) = {LatestSelection}
        /\ Cardinality({ i \in DOMAIN city_labels : city_labels[i].bg = Selected }) = 1
        /\ (last_renders > 0) =>
               render_seen = [arg      |-> LatestSelection,
                              app      |-> LatestSelection,
                              list     |-> LatestSelection,
                              selected |-> {LatestSelection}]

\* a city other than the initial one was clicked and rendered, and another
\* label is under the mouse
C8_Witness ==
    /\ Running
    /\ last_call = "select_city"
    /\ last_arg # InitialCity
    /\ last_renders = 1
    /\ \E i \in DOMAIN city_labels : city_labels[i].bg = Hover

\* C9: a call of update_weather that follows another call (startup,
\* select_city or update_weather, each of which ends in update_weather) with
\* no select_city in between leaves the displayed content (header, current
\* block, hourly block, 14-day block, background) as it was, nothing
\* accumulated, and leaves weather_data and current_city unchanged.
C9_UpdateWeatherIdempotent ==
    [][(phase = "running" /\ last_call' = "update_weather") =>
           /\ city_label' = city_label
           /\ info_frame' = info_frame
           /\ hourly_frame' = hourly_frame
           /\ forecast_frame' = forecast_frame
           /\ main_frame_bg' = main_frame_bg
           /\ weather_data' = weather_data
           /\ current_city' = current_city]_vars

\* update_weather was called twice in a row on a city with two hourly entries
C9_Witness ==
    /\ Running
    /\ last_call = "update_weather"
    /\ prev_call = "update_weather"
    /\ last_renders = 1
    /\ Len(HourlyOf(current_city)) = 2
    /\ Len(hourly_frame) = 12

\* C10: for a non-empty dataset and a city that is a key of it, whatever its
\* name, show_current shows the city's own feels-like, wind and humidity
\* values and show_14_day_forecast the 14 days; the placeholders are for the
\* empty dataset only.
C10_PlaceholdersOnlyWhenEmpty ==
    (Running /\ ui_built /\ Keys # {} /\ SoundCurrent(current_city)
             /\ "current" \in DOMAIN weather_data.cities[current_city].blocks) =>
        LET data == get_current_weather(weather_data, current_city).value
        IN  /\ Shown(info_frame, "OSHCHUSHCHAETSYA +" \o Str(data["temp"] - 1) \o "deg")
            /\ Shown(info_frame, "VETER " \o Str(data["wind"]) \o " m/s")
            /\ Shown(info_frame, "VLAZHNOST " \o Str(data["humidity"]) \o "%")
            /\ forecast_frame = <<"Prognoz na 14 dney">> \o forecast_days

====
